---- MODULE Spec2Model ----
(***************************************************************************)
(* Model of the Whova agenda generator (src/appagenda/generate.py) and of  *)
(* its helper module (src/appagenda/utils.py).                             *)
(*                                                                         *)
(* Strings are modelled as sequences of tokens: the empty string is <<>>,  *)
(* concatenation is \o, "12-srw" is <<"12", "-", "srw">> and the joined    *)
(* string "A; B" is <<"A", "; ", "B">>.  A token stands for a run of       *)
(* characters that the program never looks inside.                         *)
(***************************************************************************)
EXTENDS Integers, Sequences, FiniteSets, TLC

\* ------------------------------------------------------------------ bounds

\* the longest item list of a session in the single-session inputs
MaxItems == 2
\* the number of sessions of a multi-session schedule tree
MaxSessions == 2

\* ------------------------------------------------------- string primitives

\* the empty string ''
EMPTY == <<>>

\* the value of a field the object does not have (`hasattr` is false)
UNSET == <<"<no attribute>">>

\* str.startswith
startswith(s, p) == Len(p) <= Len(s) /\ SubSeq(s, 1, Len(p)) = p

\* str.endswith
endswith(s, p) == Len(p) <= Len(s) /\ SubSeq(s, Len(s) - Len(p) + 1, Len(s)) = p

\* `sep in s` for a one-token separator
contains(s, sep) == \E i \in 1..Len(s) : s[i] = sep

\* str.split(sep) for a one-token separator: ''.split(sep) is ['']
RECURSIVE split(_, _)
split(s, sep) ==
    IF ~contains(s, sep) THEN <<s>>
    ELSE LET i == CHOOSE k \in 1..Len(s) :
                      s[k] = sep /\ \A j \in 1..(k - 1) : s[j] # sep
         IN  <<SubSeq(s, 1, i - 1)>> \o split(SubSeq(s, i + 1, Len(s)), sep)

\* sep.join(parts)
RECURSIVE join(_, _)
join(sep, parts) ==
    IF parts = <<>> THEN EMPTY
    ELSE IF Len(parts) = 1 THEN parts[1]
    ELSE parts[1] \o <<sep>> \o join(sep, Tail(parts))

\* '<p>{}</p>'.format(text)
paragraph(text) == <<"<p>">> \o text \o <<"</p>">>

\* ' [<a href="{}">PDF</>]'.format(url)
pdf_marker(url) == <<" [<a href=\"">> \o url \o <<"\">PDF</>]">>

\* ' [<a href="{}">VIDEO</a>]'.format(url)
video_marker(url) == <<" [<a href=\"">> \o url \o <<"\">VIDEO</a>]">>

\* the elements of a sequence
Range(seq) == {seq[i] : i \in 1..Len(seq)}

\* iteration over a Python set: the elements of S in the order the
\* process's hashing puts them in
set_iter(S, order) == SelectSeq(order, LAMBDA x : x \in S)

\* ------------------------------------------------------------ track labels

MAIN == <<"main">>

SESSION_TRACK_DISPLAY_DICT ==
    (<<"srw">> :> <<"SRW">>) @@ (<<"tacl">> :> <<"TACL">>) @@
    (<<"demos">> :> <<"Demos">>) @@ (<<"industry">> :> <<"Industry">>)

TRACK_SESSION_TYPES == {"paper", "poster", "best_paper"}

\* generate.get_tracks_for_session: ok is FALSE when the dictionary lookup
\* raises KeyError
get_tracks_for_session(session, ev, order) ==
    IF ev = MAIN
    THEN IF session.type \in TRACK_SESSION_TYPES
         THEN LET item_tracks ==
                      {split(session.items[i].id_, "-")[2] :
                          i \in {k \in 1..Len(session.items) :
                                    contains(session.items[k].id_, "-")}}
                  keys == set_iter(item_tracks, order)
              IN  IF item_tracks = {}
                  THEN [ok |-> TRUE, tracks |-> <<"Research">>]
                  ELSE IF item_tracks \subseteq DOMAIN SESSION_TRACK_DISPLAY_DICT
                  THEN [ok |-> TRUE,
                        tracks |-> <<"Research">> \o <<"; ">> \o
                                   join("; ", [k \in 1..Len(keys) |->
                                       SESSION_TRACK_DISPLAY_DICT[keys[k]]])]
                  ELSE [ok |-> FALSE, tracks |-> EMPTY]
         ELSE [ok |-> TRUE, tracks |-> EMPTY]
    ELSE [ok |-> TRUE, tracks |-> ev]

\* the labels utils.get_tracks_for_session has added to session_tracks
\* after the first n items (the loop stops at the first KeyError)
RECURSIVE utils_session_tracks(_, _)
utils_session_tracks(items, n) ==
    IF n = 0 THEN [ok |-> TRUE, labels |-> {}]
    ELSE LET before == utils_session_tracks(items, n - 1)
             parts == split(items[n].id_, "-")
         IN  IF ~before.ok THEN before
             ELSE IF Len(parts) < 2
             THEN [ok |-> TRUE, labels |-> before.labels \cup {<<"Main">>}]
             ELSE IF parts[2] \in DOMAIN SESSION_TRACK_DISPLAY_DICT
             THEN [ok |-> TRUE,
                   labels |-> before.labels \cup
                              {SESSION_TRACK_DISPLAY_DICT[parts[2]]}]
             ELSE [ok |-> FALSE, labels |-> before.labels]

\* utils.get_tracks_for_session
utils_get_tracks_for_session(session, ev, order) ==
    IF ev = MAIN
    THEN IF session.type \in TRACK_SESSION_TYPES
         THEN LET r == utils_session_tracks(session.items, Len(session.items))
              IN  [ok |-> r.ok,
                   tracks |-> IF r.ok THEN join("; ", set_iter(r.labels, order))
                              ELSE EMPTY]
         ELSE [ok |-> TRUE, tracks |-> EMPTY]
    ELSE [ok |-> TRUE, tracks |-> ev]

\* ------------------------------------------------------------ item rows

\* metadata.lookup(id_, event): the record the metadata provider holds for
\* an item; item "13" has no title, no authors and no links
metadata_lookup(id_, ev) ==
    IF id_ = <<"13">>
    THEN [title |-> EMPTY, authors |-> <<>>, pdf_url |-> EMPTY,
          video_url |-> EMPTY, abstract |-> EMPTY]
    ELSE IF id_ = <<"12">>
    THEN [title |-> <<"Title of ">> \o id_,
          authors |-> << <<"Alice Smith">>, <<"Bob Lee">> >>,
          pdf_url |-> <<"http://pdf/12">>, video_url |-> EMPTY,
          abstract |-> <<"Abstract of 12">>]
    ELSE [title |-> <<"Title of ">> \o id_,
          authors |-> << <<"Bob Lee">> >>,
          pdf_url |-> EMPTY, video_url |-> <<"http://video/">> \o id_,
          abstract |-> <<"Abstract of ">> \o id_]

\* the track of an item read from the second part of its identifier, as
\* the session-level derivation reads it
item_tracks_by_split(id_, ev) ==
    LET parts == split(id_, "-")
        labels == SESSION_TRACK_DISPLAY_DICT @@ (<<"tutorial">> :> <<"Tutorial">>)
    IN  IF ev # MAIN THEN ev
        ELSE IF Len(parts) >= 2 /\ parts[2] \in DOMAIN labels
        THEN labels[parts[2]]
        ELSE <<"Research">>

\* the track of an item read from its identifier in every event
item_tracks_any_event(id_, ev) ==
    IF endswith(id_, <<"-", "srw">>) THEN <<"SRW">>
    ELSE IF endswith(id_, <<"-", "tacl">>) THEN <<"TACL">>
    ELSE IF endswith(id_, <<"-", "demos">>) THEN <<"Demos">>
    ELSE IF endswith(id_, <<"-", "industry">>) THEN <<"Industry">>
    ELSE IF endswith(id_, <<"-", "tutorial">>) THEN <<"Tutorial">>
    ELSE <<"Research">>

\* the track of an item (AppItem.to_rows, the `if event == 'main'` block)
item_tracks_for(id_, ev) ==
    IF ev = MAIN
    THEN IF endswith(id_, <<"-", "srw">>) THEN <<"SRW">>
         ELSE IF endswith(id_, <<"-", "tacl">>) THEN <<"TACL">>
         ELSE IF endswith(id_, <<"-", "demos">>) THEN <<"Demos">>
         ELSE IF endswith(id_, <<"-", "industry">>) THEN <<"Industry">>
         ELSE IF endswith(id_, <<"-", "tutorial">>) THEN <<"Tutorial">>
         ELSE <<"Research">>
    ELSE ev

\* the description with the requested links that exist appended
with_links(description, pdf_links, pdf_url, video_links, video_url) ==
    description
      \o (IF pdf_links /\ pdf_url # EMPTY THEN pdf_marker(pdf_url) ELSE EMPTY)
      \o (IF video_links /\ video_url # EMPTY THEN video_marker(video_url)
          ELSE EMPTY)

\* 'Session' for a tutorial item, 'Sub' for every other item
item_session_or_sub(item) ==
    IF item.type = "tutorial" THEN <<"Session">> ELSE <<"Sub">>

\* AppItem.to_rows: the item as the call leaves it, and its row
AppItem_to_rows(self, date, ev, pdf_links, video_links) ==
    LET item_metadata == metadata_lookup(self.id_, ev)
        item == [self EXCEPT !.title = item_metadata.title,
                             !.authors = join("; ", item_metadata.authors),
                             !.pdf_url = item_metadata.pdf_url,
                             !.video_url = item_metadata.video_url]
        description == with_links(paragraph(item_metadata.abstract),
                                  pdf_links, item.pdf_url,
                                  video_links, item.video_url)
    IN  [self |-> item,
         row |-> <<date,
                   item.start,
                   item.end,
                   item_tracks_for(item.id_, ev),
                   item.title,
                   IF item.location # UNSET THEN item.location ELSE EMPTY,
                   description,
                   item.authors,
                   EMPTY,
                   item_session_or_sub(item)>>]

\* ------------------------------------------------------------ session rows

\* the loop over the items of a session (AppSession.to_rows): item n is
\* cast to AppItem, takes the session's times when it is a tutorial or a
\* poster, and is turned into a row
RECURSIVE item_loop(_, _, _, _, _, _)
item_loop(self, n, date, ev, pdf_links, video_links) ==
    IF n = 0 THEN [self |-> self, rows |-> <<>>]
    ELSE LET before == item_loop(self, n - 1, date, ev, pdf_links, video_links)
             cast == [before.self.items[n] EXCEPT !.cls = "AppItem"]
             item == IF cast.type \in {"tutorial", "poster"}
                     THEN [cast EXCEPT !.start = before.self.start,
                                       !.end = before.self.end]
                     ELSE cast
             done == AppItem_to_rows(item, date, ev, pdf_links, video_links)
         IN  [self |-> [before.self EXCEPT !.items[n] = done.self],
              rows |-> Append(before.rows, done.row)]

\* the last matching prefix: a loop without its `break`
plenary_match_last(title, plenary_info) ==
    IF \E i \in 1..Len(plenary_info) : startswith(title, plenary_info[i][1])
    THEN CHOOSE i \in 1..Len(plenary_info) :
             /\ startswith(title, plenary_info[i][1])
             /\ \A j \in (i + 1)..Len(plenary_info) :
                    ~startswith(title, plenary_info[j][1])
    ELSE 0

\* the first prefix of plenary_info, in iteration order, that the title
\* starts with; 0 when there is none
plenary_match(title, plenary_info) ==
    IF \E i \in 1..Len(plenary_info) : startswith(title, plenary_info[i][1])
    THEN CHOOSE i \in 1..Len(plenary_info) :
             /\ startswith(title, plenary_info[i][1])
             /\ \A j \in 1..(i - 1) : ~startswith(title, plenary_info[j][1])
    ELSE 0

\* the plenary branch of AppSession.to_rows: the session with the fields
\* of the matching record
plenary_lookup(self, plenary_info) ==
    LET cleared == [self EXCEPT !.abstract = EMPTY, !.person = EMPTY,
                                !.person_url = EMPTY, !.pdf_url = EMPTY,
                                !.video_url = EMPTY]
        i == plenary_match(self.title, plenary_info)
    IN  IF i = 0 THEN cleared
        ELSE LET rec == plenary_info[i][2]
             IN  [cleared EXCEPT !.abstract = rec[1], !.person = rec[2],
                                 !.person_affiliation = rec[3],
                                 !.person_url = rec[4], !.pdf_url = rec[5],
                                 !.video_url = rec[6]]

\* both times taken from the first item
paper_times_first_item(self) ==
    IF self.start = EMPTY /\ self.end = EMPTY
    THEN IF self.items = <<>> THEN [ok |-> FALSE, self |-> self]
         ELSE [ok |-> TRUE,
               self |-> [self EXCEPT !.start = self.items[1].start,
                                     !.end = self.items[1].end]]
    ELSE [ok |-> TRUE, self |-> self]

\* the times a paper or best_paper session without times takes from its
\* items; ok is FALSE when items[0] raises IndexError
paper_times(self) ==
    IF self.start = EMPTY /\ self.end = EMPTY
    THEN IF self.items = <<>> THEN [ok |-> FALSE, self |-> self]
         ELSE [ok |-> TRUE,
               self |-> [self EXCEPT !.start = self.items[1].start,
                                     !.end = self.items[Len(self.items)].end]]
    ELSE [ok |-> TRUE, self |-> self]

\* the times a tutorial session without times takes from its first item
tutorial_times(self) ==
    IF self.start = EMPTY /\ self.end = EMPTY
    THEN IF self.items = <<>> THEN [ok |-> FALSE, self |-> self]
         ELSE [ok |-> TRUE,
               self |-> [self EXCEPT !.start = self.items[1].start,
                                     !.end = self.items[1].end]]
    ELSE [ok |-> TRUE, self |-> self]

\* the session's own row
session_row(self, date, tracks, description, authors) ==
    <<date, self.start, self.end, tracks, self.title, self.location,
      description, authors, EMPTY, <<"Session">> >>

\* the description of a paper or best_paper session: its chair
chair_description(self) ==
    IF self.chair # EMPTY
    THEN <<"<p>Chair: ">> \o self.chair \o <<"</p>">>
    ELSE EMPTY

\* AppSession.to_rows: ok is FALSE when the call raises (KeyError from the
\* track lookup, IndexError from items[0]); self is the session as the
\* call leaves it
AppSession_to_rows(self, date, ev, pdf_links, video_links, plenary_info, order) ==
    LET t == get_tracks_for_session(self, ev, order)
        branch == IF self.type = "tutorial" THEN tutorial_times(self)
                  ELSE IF self.type \in {"paper", "best_paper"}
                  THEN paper_times(self)
                  ELSE IF self.type = "plenary"
                  THEN [ok |-> TRUE, self |-> plenary_lookup(self, plenary_info)]
                  ELSE [ok |-> TRUE, self |-> self]
        s == branch.self
        description ==
            IF s.type \in {"paper", "best_paper"} THEN chair_description(s)
            ELSE IF s.type = "plenary"
            THEN with_links(paragraph(s.abstract), pdf_links, s.pdf_url,
                            video_links, s.video_url)
            ELSE EMPTY
        authors == IF s.type = "plenary" THEN s.person ELSE EMPTY
        own == IF s.type # "tutorial"
               THEN <<session_row(s, date, t.tracks, description, authors)>>
               ELSE <<>>
        loop == item_loop(s, Len(s.items), date, ev, pdf_links, video_links)
    IN  IF ~t.ok THEN [ok |-> FALSE, self |-> self, rows |-> <<>>]
        ELSE IF ~branch.ok THEN [ok |-> FALSE, self |-> s, rows |-> <<>>]
        ELSE [ok |-> TRUE, self |-> loop.self, rows |-> own \o loop.rows]

\* the new rows put in front of the list
extend_in_front(rows, more) == more \o rows

\* list.extend
extend(rows, more) == rows \o more

\* the record kept of one call of AppSession.to_rows: the session as the
\* call received it, whether it returned, and the rows it returned
call_record(session, ev, result) ==
    [session |-> session, event |-> ev, ok |-> result.ok, rows |-> result.rows]

\* the loop of AppSessionGroup.to_rows over the first n sessions: session n
\* is cast to AppSession, inherits the group's times when it has none, and
\* is turned into rows; the loop ends at the first call that raises
RECURSIVE session_loop(_, _, _, _, _, _, _, _)
session_loop(self, n, date, ev, pdf_links, video_links, plenary_info, order) ==
    IF n = 0 THEN [ok |-> TRUE, self |-> self, rows |-> <<>>, calls |-> <<>>]
    ELSE LET before == session_loop(self, n - 1, date, ev, pdf_links,
                                    video_links, plenary_info, order)
             g == before.self
             cast == [g.sessions[n] EXCEPT !.cls = "AppSession"]
             session == IF cast.start = EMPTY /\ cast.end = EMPTY
                        THEN [cast EXCEPT !.start = g.start, !.end = g.end]
                        ELSE cast
             result == AppSession_to_rows(session, date, ev, pdf_links,
                                          video_links, plenary_info, order)
         IN  IF ~before.ok THEN before
             ELSE [ok |-> result.ok,
                   self |-> [g EXCEPT !.sessions[n] = result.self],
                   rows |-> extend(before.rows, result.rows),
                   calls |-> Append(before.calls,
                                    call_record(session, ev, result))]

\* AppSessionGroup.to_rows
AppSessionGroup_to_rows(self, date, ev, pdf_links, video_links, plenary_info, order) ==
    session_loop(self, Len(self.sessions), date, ev, pdf_links, video_links,
                 plenary_info, order)

\* ------------------------------------------------------------- validation

\* the cell that marks a missing required field
ROW_OFFSET == 26

\* row[:3] + [row[3]]: the tracks cell in place of the title
required_fields_off_by_one(row) == SubSeq(row, 1, 3) \o <<row[4]>>

\* row[:3] + [row[4]]: date, start time, end time and title
required_fields(row) == SubSeq(row, 1, 3) \o <<row[5]>>

\* the validation loop of main over the first n rows
RECURSIVE validate(_, _)
validate(rows, n) ==
    IF n = 0 THEN <<>>
    ELSE LET before == validate(rows, n - 1)
             fields == required_fields(rows[n])
         IN  IF \A k \in 1..Len(fields) : fields[k] # EMPTY
             THEN before
             ELSE Append(before, ROW_OFFSET + (n - 1))

\* day.datetime.strftime('%m/%d/%Y')
pad2(n) == IF n < 10 THEN <<"0", ToString(n)>> ELSE <<ToString(n)>>

strftime(datetime) ==
    pad2(datetime.month) \o <<"/">> \o pad2(datetime.day) \o <<"/">>
        \o <<ToString(datetime.year)>>

\* --------------------------------------------------- attendee classification

\* a row of the attendee sheet and of the speaker sheet is the tuple
\* (Professional Name, Email, Affiliation)

\* utils.classify_attendees, the loop over the first n rows: the names in
\* the authors cells (row[-3]) that are not empty
RECURSIVE utils_speakers(_, _)
utils_speakers(rows, n) ==
    IF n = 0 THEN {}
    ELSE utils_speakers(rows, n - 1) \cup
         (IF rows[n][8] # EMPTY THEN Range(split(rows[n][8], "; ")) ELSE {})

\* generate.main, the loop over the first n rows: every authors cell is
\* split, the empty ones too
RECURSIVE main_speakers(_, _)
main_speakers(rows, n) ==
    IF n = 0 THEN {}
    ELSE main_speakers(rows, n - 1) \cup Range(split(rows[n][8], "; "))

\* df[df['Professional Name'].isin(names)]
isin(df, names) == SelectSeq(df, LAMBDA r : r[1] \in names)

\* the whole frame, whatever the names
everyone(df, names) == df

\* df[~df['Professional Name'].isin(names)]
not_isin(df, names) == SelectSeq(df, LAMBDA r : r[1] \notin names)

\* one record (name, '', '') for each speaker who is not in the matched
\* frame, in the iteration order of the difference set
missing_speaker_dicts(speakers, df_matched_speakers, order) ==
    LET missing == set_iter(speakers \ {df_matched_speakers[i][1] :
                                           i \in 1..Len(df_matched_speakers)},
                            order)
    IN  [k \in 1..Len(missing) |-> <<missing[k], EMPTY, EMPTY>>]

\* record i of df repeats an earlier record on the columns of subset
duplicated(df, i, subset) ==
    \E j \in 1..(i - 1) : \A c \in subset : df[j][c] = df[i][c]

\* the first n records of df without those that repeat an earlier one
RECURSIVE without_duplicates(_, _, _)
without_duplicates(df, n, subset) ==
    IF n = 0 THEN <<>>
    ELSE IF duplicated(df, n, subset)
    THEN without_duplicates(df, n - 1, subset)
    ELSE Append(without_duplicates(df, n - 1, subset), df[n])

\* duplicates dropped on the name alone
drop_duplicates_on_name(df) == without_duplicates(df, Len(df), {1})

\* df.drop_duplicates(subset=['Professional Name', 'Email']): the first
\* record of each (name, email) pair is kept
drop_duplicates(df) == without_duplicates(df, Len(df), {1, 2})

\* the speaker frame: the matched records, then the unmatched ones, without
\* duplicates.  DataFrame([]) has no columns, so with no unmatched speaker
\* the selection of the three columns raises KeyError: ok is FALSE
df_speakers(speakers, df_matched_speakers, order) ==
    LET df_unmatched_speakers ==
            missing_speaker_dicts(speakers, df_matched_speakers, order)
    IN  IF df_unmatched_speakers = <<>>
        THEN [ok |-> FALSE, rows |-> <<>>]
        ELSE [ok |-> TRUE,
              rows |-> drop_duplicates(df_matched_speakers
                                           \o df_unmatched_speakers)]

\* utils.classify_attendees: attendees_file is the sheet it reads, if one
\* is given
classify_attendees(rows, attendees_file, order) ==
    LET speakers == utils_speakers(rows, Len(rows))
        df_matched_speakers ==
            IF attendees_file.given THEN isin(attendees_file.rows, speakers)
            ELSE <<>>
        df_non_speaker_attendees ==
            IF attendees_file.given
            THEN not_isin(attendees_file.rows, speakers)
            ELSE <<>>
        frame == df_speakers(speakers, df_matched_speakers, order)
    IN  [called |-> TRUE, by |-> "utils", attendees_file |-> attendees_file,
         ok |-> frame.ok, names |-> speakers, speakers |-> frame.rows,
         non_speakers |-> IF frame.ok THEN df_non_speaker_attendees
                          ELSE <<>>]

\* generate.main, the speaker sheet: config['attendees_file'] is read
\* always, and no frame of non-speakers is made
main_speaker_sheet(rows, df_attendees, order) ==
    LET speakers == main_speakers(rows, Len(rows))
        frame == df_speakers(speakers, isin(df_attendees, speakers), order)
    IN  [called |-> TRUE, by |-> "main",
         attendees_file |-> [given |-> TRUE, rows |-> df_attendees],
         ok |-> frame.ok, names |-> speakers, speakers |-> frame.rows,
         non_speakers |-> <<>>]

\* ----------------------------------------------------------------- inputs

NO_TIMES == <<EMPTY, EMPTY>>

\* an orderfile.Item as the schedule parser builds it
Item(type, times, id_, location) ==
    [cls |-> "Item", type |-> type, start |-> times[1], end |-> times[2],
     id_ |-> id_, location |-> location,
     title |-> UNSET, authors |-> UNSET, pdf_url |-> UNSET, video_url |-> UNSET]

\* an orderfile.Session as the schedule parser builds it
Session(type, times, title, chair, id_, items) ==
    [cls |-> "Session", type |-> type, start |-> times[1], end |-> times[2],
     title |-> title, location |-> <<"Room A">>, chair |-> chair, id_ |-> id_,
     items |-> items,
     abstract |-> UNSET, person |-> UNSET, person_affiliation |-> UNSET,
     person_url |-> UNSET, pdf_url |-> UNSET, video_url |-> UNSET]

\* an orderfile.SessionGroup
SessionGroup(times, sessions) ==
    [cls |-> "SessionGroup", start |-> times[1], end |-> times[2],
     sessions |-> sessions]

\* an orderfile.Day: day n of the conference
Day(n, contents) ==
    [datetime |-> [year |-> 2019, month |-> 6, day |-> 1 + n],
     contents |-> contents]

SESSION_TYPES == {"tutorial", "paper", "best_paper", "poster", "plenary", "break"}

\* the items the item lists are built from
ItemPool ==
    { Item("paper", << <<"9:00">>, <<"9:20">> >>, <<"12">>, UNSET),
      Item("paper", << <<"9:20">>, <<"9:40">> >>, <<"12", "-", "srw">>, UNSET),
      Item("poster", NO_TIMES, <<"12", "-", "tacl">>, UNSET),
      Item("tutorial", << <<"9:40">>, <<"10:00">> >>,
           <<"12", "-", "tutorial">>, UNSET),
      Item("paper", NO_TIMES, <<"13">>, UNSET),
      Item("paper", << <<"9:40">>, <<"10:00">> >>,
           <<"12", "-", "srw", "-", "x">>, UNSET) }

\* further items, used alone
MoreItems ==
    { Item("poster", << <<"9:00">>, <<"9:20">> >>, <<"12", "-", "demos">>,
           <<"Hall B">>),
      Item("paper", << <<"9:40">>, <<"10:00">> >>,
           <<"15", "-", "industry">>, UNSET),
      Item("paper", << <<"9:20">>, <<"9:40">> >>, <<"12", "-", "x">>, UNSET),
      Item("tutorial", NO_TIMES, <<"14">>, UNSET) }

\* the item lists of at most n items
ItemLists(n) == UNION {[1..k -> ItemPool] : k \in 0..n}

SESSION_TIMES == << <<"9:00">>, <<"10:00">> >>
GROUP_TIMES == << <<"11:00">>, <<"12:30">> >>

EVENTS == {MAIN, <<"ws1">>}

\* the orders in which a set of track keys, of labels or of speaker names
\* is iterated
HashOrders ==
    { << <<"srw">>, <<"tacl">>, <<"demos">>, <<"industry">>, <<"x">>,
         <<"tutorial">>, <<"Main">>, <<"SRW">>, <<"TACL">>, <<"Demos">>,
         <<"Industry">>, <<"Alice Smith">>, <<"Bob Lee">>, EMPTY,
         <<"Ann Keynote">>, <<"Carl Chair">> >>,
      << <<"Carl Chair">>, <<"Ann Keynote">>, <<"Bob Lee">>, EMPTY,
         <<"Alice Smith">>,
         <<"Industry">>, <<"Demos">>, <<"TACL">>, <<"SRW">>, <<"Main">>,
         <<"tutorial">>, <<"x">>, <<"industry">>, <<"demos">>, <<"tacl">>,
         <<"srw">> >> }

\* plenary records: (abstract, person, affiliation, person url, pdf, video)
KEYNOTE_RECORD ==
    << <<"On language">>, <<"Ann Keynote">>, <<"Univ">>, <<"http://ann">>,
       <<"http://pdf/k1">>, <<"http://video/k1">> >>
PLAIN_RECORD ==
    << <<"All keynotes">>, <<"Carl Chair">>, EMPTY, EMPTY, EMPTY, EMPTY >>

\* the plenary_info dictionaries, as the ordered (prefix, record) pairs
\* the dictionary iterates over
PlenaryInfos ==
    { <<>>,
      << << <<"Keynote ", "1">>, KEYNOTE_RECORD >> >>,
      << << <<"Keynote ">>, PLAIN_RECORD >>,
         << <<"Keynote ", "1">>, KEYNOTE_RECORD >> >>,
      << << <<"Keynote ", "1">>, KEYNOTE_RECORD >>,
         << <<"Keynote ">>, PLAIN_RECORD >> >> }

PlenaryTitles ==
    { <<"Keynote ", "1", ": Language">>, <<"Keynote ", "2">>, <<"Lunch">> }

\* one run's inputs: the schedule tree and the configuration
Input(tree, ev, pdf, video, pinfo, order) ==
    [days |-> tree, event |-> ev, pdf_links |-> pdf, video_links |-> video,
     plenary_info |-> pinfo, hash_order |-> order]

\* a schedule of one day holding one session
single(session) == <<Day(1, <<session>>)>>

\* single sessions of every type, with and without times, over every item
\* list
ShapeInputs ==
    { Input(single(Session(type, times, <<"Session 1A">>, EMPTY, <<"1A">>, items)),
            ev, FALSE, FALSE, <<>>, order) :
        type \in SESSION_TYPES, times \in {NO_TIMES, SESSION_TIMES},
        items \in ItemLists(MaxItems), ev \in EVENTS, order \in HashOrders }

\* single sessions of every type over the chair, the identifier and the
\* times, one of them given
AttributeInputs ==
    { Input(single(Session(type, times, <<"Session 1A">>, chair, id_, items)),
            ev, FALSE, FALSE, <<>>,
            CHOOSE order \in HashOrders : order[1] = <<"srw">>) :
        type \in SESSION_TYPES,
        times \in {NO_TIMES, SESSION_TIMES, << <<"9:00">>, EMPTY >>},
        chair \in {EMPTY, <<"Dana Chair">>}, id_ \in {EMPTY, <<"1A">>},
        items \in {<<>>} \cup {<<item>> : item \in ItemPool \cup MoreItems},
        ev \in EVENTS }

\* plenary sessions over the titles, the plenary info and the link flags
PlenaryInputs ==
    { Input(single(Session("plenary", SESSION_TIMES, title, EMPTY, EMPTY, <<>>)),
            ev, pdf, video, pinfo,
            CHOOSE order \in HashOrders : order[1] = <<"srw">>) :
        title \in PlenaryTitles, ev \in EVENTS, pdf \in BOOLEAN,
        video \in BOOLEAN, pinfo \in PlenaryInfos }

\* the sessions the multi-session schedules are built from
SessionPool ==
    { Session("paper", NO_TIMES, <<"Session 1A">>, <<"Dana Chair">>, <<"1A">>,
              << Item("paper", << <<"9:00">>, <<"9:20">> >>, <<"12">>, UNSET),
                 Item("paper", << <<"9:20">>, <<"9:40">> >>,
                      <<"12", "-", "srw">>, UNSET) >>),
      Session("poster", NO_TIMES, <<"Posters">>, EMPTY, <<"2B">>,
              << Item("poster", NO_TIMES, <<"12", "-", "tacl">>, UNSET) >>),
      Session("tutorial", NO_TIMES, <<"Tutorials">>, EMPTY, EMPTY,
              << Item("tutorial", << <<"9:40">>, <<"10:00">> >>, <<"14">>,
                      UNSET),
                 Item("tutorial", NO_TIMES, <<"12", "-", "tutorial">>,
                      UNSET) >>),
      Session("paper", NO_TIMES, <<"Session 3C">>, EMPTY, <<"3C">>, <<>>) }

NEW_DAY == {"newday_session", "newday_group"}
IN_GROUP == {"newday_group", "group", "timed_group", "same_group"}
PLACES == NEW_DAY \cup IN_GROUP \cup {"session"}

\* where each session of a schedule goes: in a new day or in the last
\* one, at the top level, in a new group (with or without times) or in
\* the last group
Placements(n) ==
    { enc \in [1..n -> [session : SessionPool, place : PLACES]] :
        /\ enc[1].place \in NEW_DAY
        /\ \A i \in 2..n : enc[i].place = "same_group"
                              => enc[i - 1].place \in IN_GROUP }

\* the schedule tree of a placement
RECURSIVE build_days(_)
build_days(enc) ==
    IF enc = <<>> THEN <<>>
    ELSE LET prev == build_days(SubSeq(enc, 1, Len(enc) - 1))
             e == enc[Len(enc)]
             content ==
                 IF e.place \in {"newday_session", "session"} THEN e.session
                 ELSE SessionGroup(IF e.place = "timed_group"
                                   THEN GROUP_TIMES ELSE NO_TIMES,
                                   <<e.session>>)
             last == Len(prev)
         IN  IF e.place \in NEW_DAY
             THEN Append(prev, Day(last + 1, <<content>>))
             ELSE IF e.place = "same_group"
             THEN [prev EXCEPT ![last].contents[Len(prev[last].contents)].sessions
                                   = Append(@, e.session)]
             ELSE [prev EXCEPT ![last].contents = Append(@, content)]

\* schedules of up to MaxSessions sessions over days and session groups
TreeInputs ==
    { Input(build_days(enc), ev, FALSE, FALSE, <<>>,
            CHOOSE order \in HashOrders : order[1] = <<"srw">>) :
        enc \in UNION {Placements(n) : n \in 1..MaxSessions}, ev \in EVENTS }

Inputs == ShapeInputs \cup AttributeInputs \cup PlenaryInputs \cup TreeInputs

\* an attendee sheet: one speaker registered three times, twice with the
\* same email, and one attendee who is no speaker registered twice
ATTENDEES ==
    << << <<"Alice Smith">>, <<"alice@a.org">>, <<"Univ A">> >>,
       << <<"Zed Young">>, <<"zed@z.org">>, <<"Univ Z">> >>,
       << <<"Alice Smith">>, <<"alice@a.org">>, <<"Univ B">> >>,
       << <<"Alice Smith">>, <<"smith@b.org">>, <<"Univ B">> >>,
       << <<"Zed Young">>, <<"zed@z.org">>, <<"Univ Z">> >> >>

\* an attendee sheet with every speaker in it, two of them sharing an email
REGISTERED_SPEAKERS ==
    << << <<"Bob Lee">>, <<"alice@a.org">>, <<"Univ A">> >>,
       << <<"Alice Smith">>, <<"alice@a.org">>, <<"Univ A">> >>,
       << <<"Ann Keynote">>, <<"ann@k.org">>, <<"Univ">> >>,
       << <<"Carl Chair">>, <<"carl@c.org">>, EMPTY >> >>

\* the attendee sheets read with read_excel
AttendeeSheets ==
    { [given |-> TRUE, rows |-> ATTENDEES],
      [given |-> TRUE, rows |-> REGISTERED_SPEAKERS] }

\* attendees_file=None
NO_FILE == [given |-> FALSE]

\* ------------------------------------------------------------------ state

VARIABLES
    days,          \* AppAgenda.days: the schedule tree
    event,         \* AppAgenda.event
    pdf_links,     \* config['pdf_links']
    video_links,   \* config['video_links']
    plenary_info,  \* plenary_info_dict
    hash_order,    \* the iteration order of this process's sets
    pc,            \* where the run is
    day_index,     \* the day AppAgenda.to_rows is at
    content_index, \* the content of that day it is at
    agenda_rows,   \* the rows of the call in progress, or of the last call
    results,       \* the row lists the calls of AppAgenda.to_rows returned
    calls,         \* the calls of AppSession.to_rows of the call in progress
    bad_rows,      \* main's bad_rows
    utils_tracks,  \* the last call of utils.get_tracks_for_session
    classified     \* the speakers and the non-speakers worked out last

vars == <<days, event, pdf_links, video_links, plenary_info, hash_order, pc,
          day_index, content_index, agenda_rows, results, calls, bad_rows,
          utils_tracks, classified>>

config == <<event, pdf_links, video_links, plenary_info, hash_order>>

NONE == [called |-> FALSE]

\* a list that is created once and shared by the calls
shared_agenda_rows(previous) == previous

\* `agenda_rows = []` at the start of AppAgenda.to_rows
new_agenda_rows(previous) == <<>>

Init ==
    \E input \in Inputs :
        /\ days = input.days
        /\ event = input.event
        /\ pdf_links = input.pdf_links
        /\ video_links = input.video_links
        /\ plenary_info = input.plenary_info
        /\ hash_order = input.hash_order
        /\ pc = "to_rows"
        /\ day_index = 1
        /\ content_index = 1
        /\ agenda_rows = new_agenda_rows(<<>>)
        /\ results = <<>>
        /\ calls = <<>>
        /\ bad_rows = <<>>
        /\ utils_tracks = NONE
        /\ classified = NONE

\* the content AppAgenda.to_rows is at
at_content ==
    /\ pc = "to_rows"
    /\ day_index <= Len(days)
    /\ content_index <= Len(days[day_index].contents)

content == days[day_index].contents[content_index]

date == strftime(days[day_index].datetime)

\* AppAgenda.to_rows, a SessionGroup: it is cast to AppSessionGroup and its
\* rows are appended
GroupToRows ==
    /\ at_content
    /\ content.cls \in {"SessionGroup", "AppSessionGroup"}
    /\ LET cast == [content EXCEPT !.cls = "AppSessionGroup"]
           result == AppSessionGroup_to_rows(cast, date, event, pdf_links,
                                             video_links, plenary_info,
                                             hash_order)
       IN  /\ days' = [days EXCEPT ![day_index].contents[content_index]
                                       = result.self]
           /\ calls' = calls \o result.calls
           /\ IF result.ok
              THEN /\ agenda_rows' = extend(agenda_rows, result.rows)
                   /\ content_index' = content_index + 1
                   /\ pc' = pc
              ELSE /\ pc' = "raised"
                   /\ UNCHANGED <<agenda_rows, content_index>>
    /\ UNCHANGED <<config, day_index, results, bad_rows, utils_tracks,
                   classified>>

\* AppAgenda.to_rows, a Session: it is cast to AppSession and its rows are
\* appended
SessionToRows ==
    /\ at_content
    /\ content.cls \in {"Session", "AppSession"}
    /\ LET cast == [content EXCEPT !.cls = "AppSession"]
           result == AppSession_to_rows(cast, date, event, pdf_links,
                                        video_links, plenary_info, hash_order)
       IN  /\ days' = [days EXCEPT ![day_index].contents[content_index]
                                       = result.self]
           /\ calls' = Append(calls, call_record(cast, event, result))
           /\ IF result.ok
              THEN /\ agenda_rows' = extend(agenda_rows, result.rows)
                   /\ content_index' = content_index + 1
                   /\ pc' = pc
              ELSE /\ pc' = "raised"
                   /\ UNCHANGED <<agenda_rows, content_index>>
    /\ UNCHANGED <<config, day_index, results, bad_rows, utils_tracks,
                   classified>>

\* AppAgenda.to_rows: the contents of a day are done, on to the next day
NextDay ==
    /\ pc = "to_rows"
    /\ day_index <= Len(days)
    /\ content_index > Len(days[day_index].contents)
    /\ day_index' = day_index + 1
    /\ content_index' = 1
    /\ UNCHANGED <<days, config, pc, agenda_rows, results, calls, bad_rows,
                   utils_tracks, classified>>

\* AppAgenda.to_rows returns agenda_rows
Return ==
    /\ pc = "to_rows"
    /\ day_index > Len(days)
    /\ results' = Append(results, agenda_rows)
    /\ pc' = "returned"
    /\ UNCHANGED <<days, config, day_index, content_index, agenda_rows, calls,
                   bad_rows, utils_tracks, classified>>

\* AppAgenda.to_rows is called a second time on the same agenda
CallAgain ==
    /\ pc = "returned"
    /\ Len(results) < 2
    /\ pc' = "to_rows"
    /\ day_index' = 1
    /\ content_index' = 1
    /\ agenda_rows' = new_agenda_rows(agenda_rows)
    /\ calls' = <<>>
    /\ UNCHANGED <<days, config, results, bad_rows, utils_tracks, classified>>

\* main validates the rows of the agenda
Validate ==
    /\ pc = "returned"
    /\ bad_rows' = validate(agenda_rows, Len(agenda_rows))
    /\ pc' = "validated"
    /\ UNCHANGED <<days, config, day_index, content_index, agenda_rows,
                   results, calls, utils_tracks, classified>>

\* the sessions of the schedule tree
tree_sessions ==
    UNION { UNION { IF days[d].contents[c].cls \in {"Session", "AppSession"}
                    THEN {days[d].contents[c]}
                    ELSE Range(days[d].contents[c].sessions) :
                    c \in 1..Len(days[d].contents) } : d \in 1..Len(days) }

\* utils.get_tracks_for_session is called for a session of the agenda
UtilsGetTracks ==
    /\ pc = "validated"
    /\ \E session \in tree_sessions :
           utils_tracks' =
               [called |-> TRUE, session |-> session, event |-> event,
                result |-> utils_get_tracks_for_session(session, event,
                                                        hash_order)]
    /\ pc' = "done"
    /\ UNCHANGED <<days, config, day_index, content_index, agenda_rows,
                   results, calls, bad_rows, classified>>

\* utils.classify_attendees is called with the rows of the agenda, with or
\* without an attendee sheet
ClassifyAttendees ==
    /\ pc = "validated"
    /\ \E attendees_file \in AttendeeSheets \cup {NO_FILE} :
           classified' = classify_attendees(agenda_rows, attendees_file,
                                            hash_order)
    /\ pc' = "done"
    /\ UNCHANGED <<days, config, day_index, content_index, agenda_rows,
                   results, calls, bad_rows, utils_tracks>>

\* main reads the attendee sheet and makes the speaker sheet
MainSpeakerSheet ==
    /\ pc = "validated"
    /\ \E attendees_file \in AttendeeSheets :
           classified' = main_speaker_sheet(agenda_rows, attendees_file.rows,
                                           hash_order)
    /\ pc' = "done"
    /\ UNCHANGED <<days, config, day_index, content_index, agenda_rows,
                   results, calls, bad_rows, utils_tracks>>

Next ==
    \/ GroupToRows
    \/ SessionToRows
    \/ NextDay
    \/ Return
    \/ CallAgain
    \/ Validate
    \/ UtilsGetTracks
    \/ ClassifyAttendees
    \/ MainSpeakerSheet

Spec == Init /\ [][Next]_vars

\* ----------------------------------------------------------------- claims

\* the cells of a row
row_start(row) == row[2]
row_end(row) == row[3]
row_tracks(row) == row[4]
row_title(row) == row[5]
row_description(row) == row[7]
row_authors(row) == row[8]
row_kind(row) == row[10]

\* the calls of AppSession.to_rows that returned
returned_calls == {i \in 1..Len(calls) : calls[i].ok}

\* the row a returned call emitted for item k of its session
item_row(call, k) == call.rows[Len(call.rows) - Len(call.session.items) + k]

\* C1: for every tutorial session given to AppSession.to_rows, whatever
\* the number and the types of its items, no row is emitted for the
\* session itself: exactly len(items) rows are emitted, row k is the row
\* of item k, and every row has kind "Session".
C1_TutorialRowsAreSessions ==
    \A i \in 1..Len(calls) :
        LET call == calls[i] IN
        call.session.type = "tutorial" =>
            /\ Len(call.rows) = Len(call.session.items)
            /\ \A k \in 1..Len(call.rows) :
                   /\ row_title(call.rows[k]) =
                          metadata_lookup(call.session.items[k].id_,
                                          call.event).title
                   /\ row_kind(call.rows[k]) = <<"Session">>

\* C2: for every session that is not a tutorial, whatever the types of its
\* items, a call of AppSession.to_rows that returns emits 1 + len(items)
\* rows, the first the session's own row with kind "Session", every
\* following row with kind "Sub".
C2_SessionRowThenSubs ==
    \A i \in returned_calls :
        LET call == calls[i] IN
        call.session.type # "tutorial" =>
            /\ Len(call.rows) = 1 + Len(call.session.items)
            /\ row_title(call.rows[1]) = call.session.title
            /\ row_kind(call.rows[1]) = <<"Session">>
            /\ \A k \in 2..Len(call.rows) : row_kind(call.rows[k]) = <<"Sub">>

\* C3: two calls of AppAgenda.to_rows in succession on the same agenda,
\* with the same configuration, return the same row sequence.
C3_SecondCallSameRows ==
    Len(results) = 2 => results[2] = results[1]

\* C3 witness: both calls returned, for a schedule of two days whose
\* sessions took their times from their items.
C3_Witness ==
    /\ Len(results) = 2
    /\ Len(days) = 2
    /\ Len(results[2]) >= 5
    /\ \E k \in 1..Len(results[2]) :
           contains(row_tracks(results[2][k]), "; ")

\* the (date, title) pairs a session contributes, own row first
session_titles(session, day) ==
    (IF session.type # "tutorial"
     THEN << <<strftime(day.datetime), session.title>> >> ELSE <<>>)
    \o [k \in 1..Len(session.items) |->
            <<strftime(day.datetime),
              metadata_lookup(session.items[k].id_, event).title>>]

\* the pairs of the first n sessions of a session group
RECURSIVE group_titles(_, _, _)
group_titles(group, n, day) ==
    IF n = 0 THEN <<>>
    ELSE group_titles(group, n - 1, day) \o session_titles(group.sessions[n], day)

\* the pairs of the first n contents of a day
RECURSIVE day_titles(_, _)
day_titles(day, n) ==
    IF n = 0 THEN <<>>
    ELSE day_titles(day, n - 1) \o
         (IF day.contents[n].cls \in {"SessionGroup", "AppSessionGroup"}
          THEN group_titles(day.contents[n], Len(day.contents[n].sessions), day)
          ELSE session_titles(day.contents[n], day))

\* the pairs of the first n days
RECURSIVE agenda_titles(_)
agenda_titles(n) ==
    IF n = 0 THEN <<>>
    ELSE agenda_titles(n - 1) \o day_titles(days[n], Len(days[n].contents))

\* the pairs of the nodes AppAgenda.to_rows has passed
passed_titles ==
    IF day_index > Len(days) THEN agenda_titles(Len(days))
    ELSE agenda_titles(day_index - 1) \o
         day_titles(days[day_index], content_index - 1)

\* C4: the rows of AppAgenda.to_rows are the rows of the nodes in
\* traversal order (days, the contents of a day, the sessions of a group,
\* a session's own row followed by its items' rows): nothing is reordered,
\* dropped or duplicated.  Read off the date and title cells.
C4_RowsInTraversalOrder ==
    pc # "raised" =>
        [k \in 1..Len(agenda_rows) |->
            <<agenda_rows[k][1], row_title(agenda_rows[k])>>] = passed_titles

\* C4 witness: the call returned the rows of a session group of two
\* sessions with items.
C4_Witness ==
    /\ pc = "returned"
    /\ Len(agenda_rows) >= 5
    /\ \E c \in 1..Len(days[1].contents) :
           /\ days[1].contents[c].cls = "AppSessionGroup"
           /\ Len(days[1].contents[c].sessions) = 2
           /\ days[1].contents[c].sessions[1] # days[1].contents[c].sessions[2]

\* the label the last hyphen-delimited part of an identifier stands for
suffix_label(id_) ==
    LET parts == split(id_, "-")
        last == parts[Len(parts)]
    IN  IF Len(parts) < 2 THEN <<"Research">>
        ELSE IF last = <<"srw">> THEN <<"SRW">>
        ELSE IF last = <<"tacl">> THEN <<"TACL">>
        ELSE IF last = <<"demos">> THEN <<"Demos">>
        ELSE IF last = <<"industry">> THEN <<"Industry">>
        ELSE IF last = <<"tutorial">> THEN <<"Tutorial">>
        ELSE <<"Research">>

\* C5: in the main event the tracks cell of an item row is the one label
\* its identifier's suffix stands for: SRW, TACL, Demos, Industry or
\* Tutorial, and Research for every other identifier.
C5_ItemTrackBySuffix ==
    \A i \in returned_calls :
        LET call == calls[i] IN
        call.event = MAIN =>
            \A k \in 1..Len(call.session.items) :
                /\ row_tracks(item_row(call, k)) =
                       suffix_label(call.session.items[k].id_)
                /\ Len(split(row_tracks(item_row(call, k)), "; ")) = 1

\* C5 witness: an item whose identifier has a known part in the middle
\* and another at the end, next to an item with a plain -srw suffix.
C5_Witness ==
    \E i \in returned_calls :
        /\ calls[i].event = MAIN
        /\ Len(calls[i].session.items) = 2
        /\ calls[i].session.items[1].id_ = <<"12", "-", "srw", "-", "x">>
        /\ calls[i].session.items[2].id_ = <<"12", "-", "srw">>
        /\ row_tracks(item_row(calls[i], 2)) = <<"SRW">>

\* the labels a session of the main event should carry: Research and the
\* display name of the second hyphen-delimited part of each item identifier
expected_session_labels(session) ==
    {<<"Research">>} \cup
    { SESSION_TRACK_DISPLAY_DICT[split(session.items[k].id_, "-")[2]] :
        k \in {j \in 1..Len(session.items) :
                  contains(session.items[j].id_, "-")} }

\* a tracks string holds exactly the expected labels, each once
tracks_as_expected(tracks, session) ==
    LET labels == split(tracks, "; ")
    IN  /\ Range(labels) = expected_session_labels(session)
        /\ Cardinality(Range(labels)) = Len(labels)

\* the tracks generate.get_tracks_for_session returned to AppSession.to_rows
generate_tracks_as_expected ==
    \A i \in returned_calls :
        LET call == calls[i] IN
        (call.event = MAIN /\ call.session.type \in TRACK_SESSION_TYPES) =>
            tracks_as_expected(row_tracks(call.rows[1]), call.session)

\* the tracks utils.get_tracks_for_session returned
utils_tracks_as_expected ==
    (/\ utils_tracks.called
     /\ utils_tracks.result.ok
     /\ utils_tracks.event = MAIN
     /\ utils_tracks.session.type \in TRACK_SESSION_TYPES) =>
        tracks_as_expected(utils_tracks.result.tracks, utils_tracks.session)

\* C6: in the main event, for every paper, poster or best_paper session,
\* the tracks string get_tracks_for_session returns holds "Research" and
\* the display name of each suffix among the item identifiers, each label
\* once, joined with "; ": in generate.py and in utils.py.
C6_TracksAreResearchAndSuffixes ==
    generate_tracks_as_expected /\ utils_tracks_as_expected

\* C7: a paper or best_paper session given to AppSession.to_rows without
\* start and end is emitted with its first item's start and its last
\* item's end; one given with both keeps them in its row.
C7_PaperTimesFromItems ==
    \A i \in returned_calls :
        LET call == calls[i]
            session == call.session
            row == call.rows[1]
        IN  session.type \in {"paper", "best_paper"} =>
                /\ (session.start = EMPTY /\ session.end = EMPTY) =>
                       /\ row_start(row) = session.items[1].start
                       /\ row_end(row) = session.items[Len(session.items)].end
                /\ (session.start # EMPTY /\ session.end # EMPTY) =>
                       /\ row_start(row) = session.start
                       /\ row_end(row) = session.end

\* C7 witness: a best_paper session without times whose two items run
\* 9:00-9:20 and 9:20-9:40 is emitted as 9:00-9:40.
C7_Witness ==
    \E i \in returned_calls :
        LET session == calls[i].session IN
        /\ session.type = "best_paper"
        /\ session.start = EMPTY /\ session.end = EMPTY
        /\ Len(session.items) = 2
        /\ session.items[1].end # session.items[2].end
        /\ row_start(calls[i].rows[1]) = <<"9:00">>
        /\ row_end(calls[i].rows[1]) = <<"9:40">>

\* the prefixes of plenary_info a title starts with
matching_prefixes(title) ==
    {j \in 1..Len(plenary_info) : startswith(title, plenary_info[j][1])}

\* the plenary sessions AppSession.to_rows returned rows for
plenary_calls == {i \in returned_calls : calls[i].session.type = "plenary"}

\* the description and the authors of a plenary row come from the first
\* record, in iteration order, whose prefix the title starts with
plenary_row_from_first_match(call) ==
    LET matches == matching_prefixes(call.session.title)
        first == CHOOSE j \in matches : \A m \in matches : j <= m
        rec == plenary_info[first][2]
        row == call.rows[1]
    IN  matches # {} =>
            /\ row_description(row) =
                   <<"<p>">> \o rec[1] \o <<"</p>">>
                   \o (IF pdf_links /\ rec[5] # EMPTY
                       THEN pdf_marker(rec[5]) ELSE EMPTY)
                   \o (IF video_links /\ rec[6] # EMPTY
                       THEN video_marker(rec[6]) ELSE EMPTY)
            /\ row_authors(row) = rec[2]

\* C8 as amended: for a plenary session the first prefix of plenary_info,
\* in iteration order, that the title starts with gives "<p>{abstract}</p>"
\* (plus the requested link markers) as description and the speaker as
\* authors; when no prefix matches the description is the empty paragraph
\* "<p></p>" and the authors cell is the empty string.
C8_PlenaryFirstMatchOrEmptyParagraph ==
    \A i \in plenary_calls :
        /\ plenary_row_from_first_match(calls[i])
        /\ matching_prefixes(calls[i].session.title) = {} =>
               /\ row_description(calls[i].rows[1]) = <<"<p>", "</p>">>
               /\ row_authors(calls[i].rows[1]) = EMPTY

\* C8 as stated: as above, but when no prefix matches both the
\* description and the authors are the empty string.
C8_PlenaryFirstMatchOrEmpty ==
    \A i \in plenary_calls :
        /\ plenary_row_from_first_match(calls[i])
        /\ matching_prefixes(calls[i].session.title) = {} =>
               /\ row_description(calls[i].rows[1]) = EMPTY
               /\ row_authors(calls[i].rows[1]) = EMPTY

\* C8 witness: a plenary session whose title no prefix of a non-empty
\* plenary_info matches has been emitted.
C8_Witness ==
    \E i \in plenary_calls :
        /\ plenary_info # <<>>
        /\ matching_prefixes(calls[i].session.title) = {}
        /\ row_description(calls[i].rows[1]) = <<"<p>", "</p>">>

\* C9: in the main event the title cell of the own row of a paper,
\* best_paper or poster session with an identifier is "{id}: " followed by
\* the session title; in every other case it is the session title.
C9_TitlePrefixedWithId ==
    \A i \in returned_calls :
        LET call == calls[i]
            session == call.session
        IN  session.type # "tutorial" =>
                row_title(call.rows[1]) =
                    IF /\ call.event = MAIN
                       /\ session.type \in TRACK_SESSION_TYPES
                       /\ session.id_ # EMPTY
                    THEN session.id_ \o <<": ">> \o session.title
                    ELSE session.title

\* a required cell of the row is empty
missing_required_field(row) ==
    row[1] = EMPTY \/ row[2] = EMPTY \/ row[3] = EMPTY \/ row[5] = EMPTY

\* C10: after validation, bad_rows holds 26 + i (i counted from 0) exactly
\* for the rows with an empty date, start time, end time or title, in
\* ascending order, and the rows are the rows AppAgenda.to_rows returned.
C10_BadRowsAreTheIncompleteRows ==
    pc \in {"validated", "done"} =>
        /\ \A n \in 1..Len(agenda_rows) :
               (26 + (n - 1) \in Range(bad_rows))
                   <=> missing_required_field(agenda_rows[n])
        /\ Range(bad_rows) \subseteq {26 + (n - 1) : n \in 1..Len(agenda_rows)}
        /\ \A j, k \in 1..Len(bad_rows) : j < k => bad_rows[j] < bad_rows[k]
        /\ agenda_rows = results[Len(results)]

\* C10 witness: of three rows or more, the first is complete and is not
\* reported, and a later one with an empty start time is reported.
C10_Witness ==
    /\ pc = "validated"
    /\ Len(agenda_rows) >= 3
    /\ ~missing_required_field(agenda_rows[1])
    /\ 26 \notin Range(bad_rows)
    /\ \E n \in 2..Len(agenda_rows) :
           /\ row_start(agenda_rows[n]) = EMPTY
           /\ row_title(agenda_rows[n]) # EMPTY
           /\ 26 + (n - 1) \in Range(bad_rows)

\* the distinct non-empty names in the authors cells of the rows
row_names(rows) ==
    UNION { Range(split(row_authors(rows[k]), "; ")) : k \in 1..Len(rows) }
        \ {EMPTY}

\* the names of the records of a frame
frame_names(df) == {df[i][1] : i \in 1..Len(df)}

\* the (name, email) pair of a record
name_email(r) == <<r[1], r[2]>>

\* the records the speaker result should be made of: the roster records of
\* the speakers and a record with the name alone for every other speaker
expected_speakers(roster, names) ==
    {roster[i] : i \in {k \in 1..Len(roster) : roster[k][1] \in names}} \cup
    {<<n, EMPTY, EMPTY>> : n \in names \ frame_names(roster)}

\* C11: with a roster, classification returns; the speaker names are the
\* distinct non-empty names of the authors cells split on "; "; the
\* speakers are the roster records with such a name (one for each (name,
\* email) pair) and exactly one record (name, "", "") for each such name
\* the roster lacks; the non-speakers are exactly the other roster records.
C11_SpeakersAndNonSpeakersWithRoster ==
    (classified.called /\ classified.attendees_file.given) =>
        LET roster == classified.attendees_file.rows
            names == row_names(agenda_rows)
            speakers == classified.speakers
            expected == expected_speakers(roster, names)
        IN  /\ classified.ok
            /\ classified.names = names
            /\ Range(speakers) \subseteq expected
            /\ \A r \in expected :
                   \E k \in 1..Len(speakers) :
                       name_email(speakers[k]) = name_email(r)
            /\ \A n \in names \ frame_names(roster) :
                   Cardinality({k \in 1..Len(speakers) :
                                   speakers[k][1] = n}) = 1
            /\ classified.by = "utils" =>
                   classified.non_speakers =
                       SelectSeq(roster, LAMBDA r : r[1] \notin names)

\* the first record of df with the (name, email) pair of r
first_with_pair(df, r) ==
    df[CHOOSE i \in 1..Len(df) :
           /\ name_email(df[i]) = name_email(r)
           /\ \A j \in 1..(i - 1) : name_email(df[j]) # name_email(r)]

\* C12: the speaker result holds no two records with the same (name,
\* email) pair; of the roster records of a speaker with the same pair the
\* first is the one kept, and every pair of a speaker's roster records is
\* kept.
C12_SpeakersUniqueByNameAndEmail ==
    (classified.called /\ classified.ok) =>
        LET speakers == classified.speakers
            roster == IF classified.attendees_file.given
                      THEN classified.attendees_file.rows ELSE <<>>
            matched == SelectSeq(roster, LAMBDA r : r[1] \in classified.names)
        IN  /\ \A j, k \in 1..Len(speakers) :
                   j < k => name_email(speakers[j]) # name_email(speakers[k])
            /\ \A i \in 1..Len(matched) :
                   first_with_pair(matched, matched[i]) \in Range(speakers)
            /\ \A k \in 1..Len(speakers) :
                   speakers[k][1] \in frame_names(roster) =>
                       speakers[k] = first_with_pair(matched, speakers[k])

\* C12 witness: of a speaker registered three times, twice with the same
\* email, the first record and the one with the other email are in the
\* speaker result, the repeated one is not.
C12_Witness ==
    /\ classified.called /\ classified.ok
    /\ classified.attendees_file = [given |-> TRUE, rows |-> ATTENDEES]
    /\ ATTENDEES[1] \in Range(classified.speakers)
    /\ ATTENDEES[4] \in Range(classified.speakers)
    /\ ATTENDEES[3] \notin Range(classified.speakers)
    /\ name_email(ATTENDEES[3]) = name_email(ATTENDEES[1])

\* C13: no step of AppAgenda.to_rows changes the schedule tree: the
\* groups, sessions and items keep their times, their other attributes and
\* their kind.
C13_TreeNotMutated == [][days' = days]_vars

\* an item identifier of the session has a second hyphen-delimited part
\* that the display table lacks
unknown_suffix(session) ==
    \E k \in 1..Len(session.items) :
        /\ contains(session.items[k].id_, "-")
        /\ split(session.items[k].id_, "-")[2]
               \notin DOMAIN SESSION_TRACK_DISPLAY_DICT

\* C14: in the main event a paper, poster or best_paper session with an
\* item whose suffix the display table lacks does not abort the run: the
\* call returns with a tracks cell that holds the base label, in
\* generate.py and in utils.py.
C14_UnknownSuffixNotFatal ==
    /\ \A i \in 1..Len(calls) :
           (/\ calls[i].event = MAIN
            /\ calls[i].session.type \in TRACK_SESSION_TYPES
            /\ unknown_suffix(calls[i].session)) =>
               /\ calls[i].ok
               /\ <<"Research">> \in
                      Range(split(row_tracks(calls[i].rows[1]), "; "))
    /\ (/\ utils_tracks.called
        /\ utils_tracks.event = MAIN
        /\ utils_tracks.session.type \in TRACK_SESSION_TYPES
        /\ unknown_suffix(utils_tracks.session)) => utils_tracks.result.ok

\* C15: missing data is never fatal: every call of AppSession.to_rows
\* whose track lookup succeeds returns, whether or not the session has
\* times, items, a chair or a matching plenary record.
C15_MissingDataNotFatal ==
    \A i \in 1..Len(calls) :
        get_tracks_for_session(calls[i].session, calls[i].event,
                               hash_order).ok => calls[i].ok

\* C16: in an event other than the main event every row, of a session or
\* of an item, has the event's name as its tracks cell, a single label.
C16_EventNameIsTheTrack ==
    event # MAIN =>
        /\ \A k \in 1..Len(agenda_rows) :
               /\ row_tracks(agenda_rows[k]) = event
               /\ Len(split(row_tracks(agenda_rows[k]), "; ")) = 1
        /\ \A i \in returned_calls :
               \A k \in 1..Len(calls[i].rows) :
                   row_tracks(calls[i].rows[k]) = event

\* C16 witness: in a workshop a poster session was emitted with its own
\* row and the row of an item whose identifier ends in -tacl.
C16_Witness ==
    /\ event # MAIN
    /\ pc = "returned"
    /\ \E i \in returned_calls :
           /\ calls[i].session.type = "poster"
           /\ Len(calls[i].rows) = 2
           /\ calls[i].session.items[1].id_ = <<"12", "-", "tacl">>
           /\ row_tracks(calls[i].rows[2]) = event
           /\ calls[i].rows[1] \in Range(agenda_rows)

\* C17: without a roster, classification returns one record (name, "",
\* "") for each distinct non-empty author name of the rows and no
\* non-speaker.
C17_NoRosterSpeakersOnly ==
    (/\ classified.called
     /\ classified.by = "utils"
     /\ ~classified.attendees_file.given) =>
        LET names == row_names(agenda_rows)
            speakers == classified.speakers
        IN  /\ classified.ok
            /\ Range(speakers) = {<<n, EMPTY, EMPTY>> : n \in names}
            /\ Len(speakers) = Cardinality(names)
            /\ classified.non_speakers = <<>>

\* the start and end time a session has once AppSession.to_rows has
\* resolved them: a tutorial without times takes those of its first item
resolved_times(session) ==
    IF /\ session.type = "tutorial"
       /\ session.start = EMPTY
       /\ session.end = EMPTY
    THEN <<session.items[1].start, session.items[1].end>>
    ELSE <<session.start, session.end>>

\* C18: every item row of a tutorial or poster session carries the
\* session's resolved start and end, whatever the item's own type and
\* times; the item rows of the other sessions carry the item's own start
\* and end.
C18_ItemTimesBySessionType ==
    \A i \in returned_calls :
        LET call == calls[i]
            session == call.session
        IN  \A k \in 1..Len(session.items) :
                <<row_start(item_row(call, k)), row_end(item_row(call, k))>> =
                    IF session.type \in {"tutorial", "poster"}
                    THEN resolved_times(session)
                    ELSE <<session.items[k].start, session.items[k].end>>

\* C19: the speakers and the non-speakers share no name; every name of
\* the speaker-name set is a speaker; no roster record of another name is
\* one; and every roster record is among the non-speakers or, by its
\* (name, email) pair, among the speakers, never both.
C19_ResultsPartitionByName ==
    (classified.called /\ classified.ok) =>
        LET speakers == classified.speakers
            non_speakers == classified.non_speakers
            roster == IF classified.attendees_file.given
                      THEN classified.attendees_file.rows ELSE <<>>
        IN  /\ frame_names(speakers) \cap frame_names(non_speakers) = {}
            /\ classified.names \subseteq frame_names(speakers)
            /\ frame_names(speakers) \subseteq classified.names
            /\ classified.by = "utils" =>
                   \A i \in 1..Len(roster) :
                       (roster[i] \in Range(non_speakers)) #
                       (\E k \in 1..Len(speakers) :
                            name_email(speakers[k]) = name_email(roster[i]))

\* C19 witness: with the attendee sheet, a registered speaker and an
\* unregistered one are among the speakers and the attendee who is no
\* speaker is among the non-speakers.
C19_Witness ==
    /\ classified.called /\ classified.ok
    /\ classified.by = "utils"
    /\ classified.attendees_file = [given |-> TRUE, rows |-> ATTENDEES]
    /\ <<"Alice Smith">> \in frame_names(classified.speakers)
    /\ << <<"Bob Lee">>, EMPTY, EMPTY >> \in Range(classified.speakers)
    /\ frame_names(classified.non_speakers) = {<<"Zed Young">>}
    /\ Len(classified.non_speakers) = 2

====
